---- MODULE Spec2Model ----
(***************************************************************************)
(* Model of stockapp.py: the label -> fetch-parameter mapping and the      *)
(* provider call of get_data, the SMA/RSI columns of calculate_indicators, *)
(* the rule set of generate_interpretation and the per-tab body of the     *)
(* main loop (metrics, interpretation, "Data not available" branch).       *)
(*                                                                         *)
(* Prices are integers.  Every float the program derives from them is kept *)
(* as an exact fraction n/d, or as one of the IEEE specials nan, inf, -inf *)
(* that numpy/pandas division by zero produces instead of raising.         *)
(* Positions are 1-based here: position i of the source (0-based) is i+1.  *)
(***************************************************************************)
EXTENDS Integers, Sequences, FiniteSets

VARIABLES pc, tab, period, resp, fetched, df, info, ui, outcomes

vars == <<pc, tab, period, resp, fetched, df, info, ui, outcomes>>

----------------------------------------------------------------------------
(* Bounds of the model and constants of the program *)

MaxBars == 21

SMA_WINDOW == 20
RSI_WINDOW == 14
MIN_BARS == 15
RSI_OVERBOUGHT == 70
RSI_OVERSOLD == 30

----------------------------------------------------------------------------
(* float64 values: exact fractions and the IEEE specials *)

Abs(x) == IF x < 0 THEN 0 - x ELSE x

Max(a, b) == IF a >= b THEN a ELSE b

Min(a, b) == IF a <= b THEN a ELSE b

RECURSIVE Gcd(_, _)
Gcd(a, b) == IF b = 0 THEN a ELSE Gcd(b, a % b)

NaN == [k |-> "nan", n |-> 0, d |-> 1]

Inf == [k |-> "inf", n |-> 1, d |-> 1]

NegInf == [k |-> "-inf", n |-> -1, d |-> 1]

\* the fraction n/d, d # 0, in lowest terms with a positive denominator
Rat(n, d) ==
    LET g == Gcd(Abs(n), Abs(d))
        s == IF d < 0 THEN -1 ELSE 1
    IN  [k |-> "num", n |-> (s * n) \div g, d |-> (s * d) \div g]

Num(i) == [k |-> "num", n |-> i, d |-> 1]

isna(a) == a.k = "nan"

IsNum(a) == a.k = "num"

SignedInf(s) == IF s < 0 THEN NegInf ELSE Inf

\* -1, 0, 1: the sign of a value that is not nan
Sign(a) == IF a.n < 0 THEN -1 ELSE IF a.n > 0 THEN 1 ELSE 0

\* a / b as numpy float64 divides: x/0 is inf, -inf or nan, never an exception.
\* (A zero divisor may be -0.0, which flips the sign of the infinity; every
\* use below maps both infinities to the same final value.)
FDiv(a, b) ==
    IF isna(a) \/ isna(b) THEN NaN
    ELSE IF ~IsNum(a) /\ ~IsNum(b) THEN NaN
    ELSE IF ~IsNum(a) THEN SignedInf(Sign(a) * (IF b.n < 0 THEN -1 ELSE 1))
    ELSE IF ~IsNum(b) THEN Num(0)
    ELSE IF b.n = 0 THEN (IF a.n = 0 THEN NaN ELSE SignedInf(Sign(a)))
    ELSE Rat(a.n * b.d, a.d * b.n)

FNeg(a) ==
    IF isna(a) THEN NaN
    ELSE IF ~IsNum(a) THEN SignedInf(0 - Sign(a))
    ELSE Rat(0 - a.n, a.d)

FAdd(a, b) ==
    IF isna(a) \/ isna(b) THEN NaN
    ELSE IF ~IsNum(a) /\ ~IsNum(b) THEN (IF a = b THEN a ELSE NaN)
    ELSE IF ~IsNum(a) THEN a
    ELSE IF ~IsNum(b) THEN b
    ELSE Rat(a.n * b.d + b.n * a.d, a.d * b.d)

FSub(a, b) == FAdd(a, FNeg(b))

FMul(a, b) ==
    IF isna(a) \/ isna(b) THEN NaN
    ELSE IF ~IsNum(a) \/ ~IsNum(b)
         THEN (IF Sign(a) * Sign(b) = 0 THEN NaN ELSE SignedInf(Sign(a) * Sign(b)))
    ELSE Rat(a.n * b.n, a.d * b.d)

\* a > b and a < b; any comparison with nan is False
FGt(a, b) ==
    IF isna(a) \/ isna(b) THEN FALSE
    ELSE IF a = b THEN FALSE
    ELSE IF a.k = "inf" \/ b.k = "-inf" THEN TRUE
    ELSE IF a.k = "-inf" \/ b.k = "inf" THEN FALSE
    ELSE a.n * b.d > b.n * a.d

FLt(a, b) == FGt(b, a)

----------------------------------------------------------------------------
(* The provider's bars and the DataFrame *)

Labels == <<"1 Day", "1 Week", "1 Month", "3 Months", "6 Months", "1 Year">>

\* labels outside the tab list, for calls of get_data from elsewhere
UnknownLabels == {"2 Years", "1 day"}

Steps == {-1, 0, 1}

Bases == {0, 30}

\* close of bar i of a walk that starts at base and moves by d1 for the first
\* k1 bars, by d2 up to bar k2 and by d3 afterwards (bar 0 is the previous
\* session's close, the first bar's open)
WalkClose(i, base, k1, k2, d1, d2, d3) ==
    base + d1 * Min(i, k1) + d2 * (Min(i, k2) - Min(i, k1)) + d3 * (i - Min(i, k2))

\* a DataFrame as stock.history returns it: OHLC columns, no indicator column
Frame(opens, closes) ==
    [Open |-> opens, Close |-> closes,
     High |-> [i \in 1..Len(closes) |-> Max(opens[i], closes[i])],
     Low |-> [i \in 1..Len(closes) |-> Min(opens[i], closes[i])],
     columns |-> {}, SMA_20 |-> << >>, RSI |-> << >>]

WalkFrame(n, base, k1, k2, d1, d2, d3) ==
    Frame([i \in 1..n |-> WalkClose(i - 1, base, k1, k2, d1, d2, d3)],
          [i \in 1..n |-> WalkClose(i, base, k1, k2, d1, d2, d3)])

\* pd.DataFrame()
EmptyFrame == Frame(<< >>, << >>)

empty(d) == Len(d.Close) = 0

\* a price history the provider can return has no negative price (the walk
\* is piecewise linear, so its lowest point is at a bend or an end)
ValidWalk(n, base, k1, k2, d1, d2, d3) ==
    /\ k1 <= k2
    /\ k2 <= n
    /\ \A i \in {0, k1, k2, n} : WalkClose(i, base, k1, k2, d1, d2, d3) >= 0

----------------------------------------------------------------------------
(* calculate_indicators *)

RECURSIVE SumRange(_, _, _)
SumRange(s, lo, hi) == IF lo > hi THEN 0 ELSE s[hi] + SumRange(s, lo, hi - 1)

\* Series.rolling(window=w).mean() with min_periods = 1, a wrong window policy
rolling_mean_min1(s, w) ==
    [i \in 1..Len(s) |-> Rat(SumRange(s, Max(1, i - w + 1), i), Min(i, w))]

\* Series.rolling(window=w).mean() of a series without nan: nan until the
\* window holds w observations, then the mean of the last w
rolling_mean(s, w) ==
    [i \in 1..Len(s) |->
        IF i < w THEN NaN ELSE Rat(SumRange(s, i - w + 1, i), w)]

\* Series.diff(): nan at the first position
diff(s) == [i \in 1..Len(s) |-> IF i = 1 THEN NaN ELSE Num(s[i] - s[i - 1])]

\* delta.where(delta > 0, 0): nan > 0 is False, so the leading nan becomes 0
gains(delta) ==
    [i \in 1..Len(delta) |-> IF FGt(delta[i], Num(0)) THEN delta[i].n ELSE 0]

\* -delta.where(delta < 0, 0)
losses(delta) ==
    [i \in 1..Len(delta) |-> IF FLt(delta[i], Num(0)) THEN 0 - delta[i].n ELSE 0]

\* rs = gain / loss with the operands swapped, a wrong oscillator
rsi_swapped(gain, loss) ==
    [i \in 1..Len(gain) |->
        FSub(Num(100), FDiv(Num(100), FAdd(Num(1), FDiv(loss[i], gain[i]))))]

\* rs = gain / loss; 100 - (100 / (1 + rs))
rsi_of(gain, loss) ==
    [i \in 1..Len(gain) |->
        FSub(Num(100), FDiv(Num(100), FAdd(Num(1), FDiv(gain[i], loss[i]))))]

\* calculate_indicators without the len(df) < 15 guard
calculate_indicators_unguarded(d) ==
    LET delta == diff(d.Close)
        gain == rolling_mean(gains(delta), RSI_WINDOW)
        loss == rolling_mean(losses(delta), RSI_WINDOW)
    IN  [d EXCEPT !.columns = {"SMA_20", "RSI"},
                  !.SMA_20 = rolling_mean(d.Close, SMA_WINDOW),
                  !.RSI = rsi_of(gain, loss)]

calculate_indicators(d) ==
    IF Len(d.Close) < MIN_BARS THEN d
    ELSE
        LET delta == diff(d.Close)
            gain == rolling_mean(gains(delta), RSI_WINDOW)
            loss == rolling_mean(losses(delta), RSI_WINDOW)
        IN  [d EXCEPT !.columns = {"SMA_20", "RSI"},
                      !.SMA_20 = rolling_mean(d.Close, SMA_WINDOW),
                      !.RSI = rsi_of(gain, loss)]

----------------------------------------------------------------------------
(* generate_interpretation *)

Last(s) == s[Len(s)]

\* the trend read from the last two bars instead of the whole period
trend_change_last_session(d) ==
    FMul(FDiv(Num(Last(d.Close) - d.Close[Len(d.Close) - 1]),
              Num(d.Close[Len(d.Close) - 1])), Num(100))

\* change_pct = ((end_price - start_price) / start_price) * 100
trend_change(d) ==
    FMul(FDiv(Num(Last(d.Close) - d.Close[1]), Num(d.Close[1])), Num(100))

\* the oscillator bands with the thresholds included, a wrong classification
rsi_zone_inclusive(rsi) ==
    IF ~FLt(rsi, Num(RSI_OVERBOUGHT)) THEN "Overbought"
    ELSE IF ~FGt(rsi, Num(RSI_OVERSOLD)) THEN "Oversold"
    ELSE "Neutral"

\* if rsi > 70 ... elif rsi < 30 ... else ...
rsi_zone(rsi) ==
    IF FGt(rsi, Num(RSI_OVERBOUGHT)) THEN "Overbought"
    ELSE IF FLt(rsi, Num(RSI_OVERSOLD)) THEN "Oversold"
    ELSE "Neutral"

\* 'RSI' in df.columns and not pd.isna(df['RSI'].iloc[-1])
has_rsi(d) == "RSI" \in d.columns /\ ~isna(Last(d.RSI))

\* 'SMA_20' in df.columns and not pd.isna(df['SMA_20'].iloc[-1])
has_sma(d) == "SMA_20" \in d.columns /\ ~isna(Last(d.SMA_20))

\* The returned text, as the list of its statements in the order they are
\* appended; each statement keeps the words and numbers the text is built from.
generate_interpretation(d, p) ==
    IF empty(d) \/ Len(d.Close) < 2
    THEN << [kind |-> "not_enough_data"] >>
    ELSE
        LET change_pct == trend_change(d)
            up == FGt(change_pct, Num(0))
            performance ==
                [kind |-> "performance", period |-> p,
                 trend |-> IF up THEN "Bullish (Upward)" ELSE "Bearish (Downward)",
                 color |-> IF up THEN "green" ELSE "red",
                 start_price |-> d.Close[1], end_price |-> Last(d.Close),
                 change_pct |-> change_pct]
            rsi_part ==
                IF has_rsi(d)
                THEN << [kind |-> "rsi", rsi |-> Last(d.RSI),
                         zone |-> rsi_zone(Last(d.RSI))] >>
                ELSE << >>
            sma_part ==
                IF has_sma(d)
                THEN << [kind |-> "sma", sma |-> Last(d.SMA_20),
                         side |-> IF FGt(Num(Last(d.Close)), Last(d.SMA_20))
                                  THEN "above" ELSE "below"] >>
                ELSE << >>
        IN  << performance >> \o rsi_part \o sma_part

----------------------------------------------------------------------------
(* the metrics of the tab body *)

None == [kind |-> "None", has_currency |-> FALSE, currency |-> ""]

\* stock.info: None, a dict with a currency, a dict without one
Infos == { None,
           [kind |-> "dict", has_currency |-> TRUE, currency |-> "INR"],
           [kind |-> "dict", has_currency |-> FALSE, currency |-> ""] }

\* df['Close'].iloc[-2] if len(df) > 1 else df['Open'].iloc[0]
prev_close_of(d) ==
    IF Len(d.Close) > 1 THEN d.Close[Len(d.Close) - 1] ELSE d.Open[1]

\* Series.max() and Series.min() of a non-empty column
SeqMax(s) == CHOOSE m \in { s[i] : i \in 1..Len(s) } : \A j \in 1..Len(s) : s[j] <= m

SeqMin(s) == CHOOSE m \in { s[i] : i \in 1..Len(s) } : \A j \in 1..Len(s) : s[j] >= m

\* what the three st.metric calls show for a non-empty frame
metrics_of(d, i) ==
    LET latest_price == Last(d.Close)
        prev_close == prev_close_of(d)
        daily_change == latest_price - prev_close
        daily_pct == FMul(FDiv(Num(daily_change), Num(prev_close)), Num(100))
    IN  [latest_price |-> latest_price,
         currency |-> IF i.kind = "dict" /\ i.has_currency THEN i.currency ELSE "USD",
         daily_pct |-> daily_pct,
         period_high |-> SeqMax(d.High),
         period_low |-> SeqMin(d.Low)]

----------------------------------------------------------------------------
(* get_data and the provider *)

\* the conditional chain: every label but the five named ones maps to "1d"
yf_period_of(p) ==
    IF p = "1 Week" THEN "5d"
    ELSE IF p = "1 Month" THEN "1mo"
    ELSE IF p = "3 Months" THEN "3mo"
    ELSE IF p = "6 Months" THEN "6mo"
    ELSE IF p = "1 Year" THEN "1y"
    ELSE "1d"

\* "1m" if period == "1 Day" else "1d"
interval_of(p) == IF p = "1 Day" THEN "1m" ELSE "1d"

\* What the provider does with one request: stock.history raises or returns
\* bars (possibly none), and stock.info raises or returns a value.
Response(hr, bars, ir, i) ==
    [history_raises |-> hr, bars |-> bars, info_raises |-> ir, info |-> i]

NoResponse == Response(FALSE, EmptyFrame, FALSE, None)

\* one way of writing each answer: a raising stock.history returns no bars,
\* and stock.info is not read (so neither raises nor returns) without bars
Canonical(hr, n, ir, i) ==
    /\ hr => n = 0
    /\ n = 0 => ~ir
    /\ (n = 0 \/ ir) => i = None

\* get_data that lets the bars through when only stock.info fails
get_data_keeps_bars(p, r) ==
    LET request == [period |-> yf_period_of(p), interval |-> interval_of(p)]
    IN  IF r.history_raises \/ empty(r.bars)
        THEN [df |-> EmptyFrame, info |-> None, requests |-> << request >>]
        ELSE [df |-> r.bars, info |-> IF r.info_raises THEN None ELSE r.info,
              requests |-> << request >>]

\* get_data(ticker, period) against a provider that answers r: the returned
\* (df, info) and the requests made to stock.history
get_data(p, r) ==
    LET request == [period |-> yf_period_of(p), interval |-> interval_of(p)]
    IN  IF r.history_raises \/ empty(r.bars) \/ r.info_raises
        THEN [df |-> EmptyFrame, info |-> None, requests |-> << request >>]
        ELSE [df |-> r.bars, info |-> r.info, requests |-> << request >>]

----------------------------------------------------------------------------
(* The tab loop *)

\* the lengths of the histories returned to the six requests of a run: none,
\* one bar, two bars, each side of the 15-bar guard, a full moving-average
\* window, the longest history
LoopLens == {0, 1, 2, MIN_BARS - 1, MIN_BARS, SMA_WINDOW, MaxBars}

\* a tab before anything is written into it
EmptyTab == [metrics |-> << >>, interpretation |-> << >>, error |-> FALSE]

Init ==
    /\ pc = "get_data"
    /\ tab = 1
    /\ period = Labels[1]
    /\ resp = NoResponse
    /\ fetched = << >>
    /\ df = EmptyFrame
    /\ info = None
    /\ ui = EmptyTab
    /\ outcomes = << >>

\* the assignment of get_data's result that keeps the previous request's
\* frame when the new one is empty
AssignKeepingStaleFrame(r) ==
    LET got == get_data(period, r)
    IN  /\ resp' = r
        /\ fetched' = got.requests
        /\ df' = IF empty(got.df) THEN df ELSE got.df
        /\ info' = got.info
        /\ pc' = IF empty(df') THEN "error" ELSE "calculate_indicators"

\* df, info = get_data(ticker_symbol, period_key); if not df.empty: ... else: ...
Assign(r) ==
    LET got == get_data(period, r)
    IN  /\ resp' = r
        /\ fetched' = got.requests
        /\ df' = got.df
        /\ info' = got.info
        /\ pc' = IF empty(got.df) THEN "error" ELSE "calculate_indicators"

\* The provider answers the request with a one-slope walk of one of the
\* lengths LoopLens, or fails.
GetData ==
    /\ pc = "get_data"
    /\ \E n \in LoopLens, b \in Bases, d \in Steps :
          /\ ValidWalk(n, b, 0, 0, 0, 0, d)
          /\ LET bars == WalkFrame(n, b, 0, 0, 0, 0, d)
             IN  \E hr, ir \in BOOLEAN, i \in Infos :
                    /\ Canonical(hr, n, ir, i)
                    /\ Assign(Response(hr, bars, ir, i))
    /\ UNCHANGED <<tab, period, ui, outcomes>>

\* df = calculate_indicators(df)
CalculateIndicators ==
    /\ pc = "calculate_indicators"
    /\ df' = calculate_indicators(df)
    /\ pc' = "metrics"
    /\ UNCHANGED <<tab, period, resp, fetched, info, ui, outcomes>>

\* 1. Metrics
Metrics ==
    /\ pc = "metrics"
    /\ ui' = [ui EXCEPT !.metrics = << metrics_of(df, info) >>]
    /\ pc' = "interpret"
    /\ UNCHANGED <<tab, period, resp, fetched, df, info, outcomes>>

\* 3. Automated Interpretation: st.info(generate_interpretation(df, tab_name))
Interpret ==
    /\ pc = "interpret"
    /\ ui' = [ui EXCEPT !.interpretation = generate_interpretation(df, Labels[tab])]
    /\ outcomes' = Append(outcomes, "bundle")
    /\ pc' = "next_tab"
    /\ UNCHANGED <<tab, period, resp, fetched, df, info>>

\* st.error("Data not available. Please check the ticker symbol.")
ShowError ==
    /\ pc = "error"
    /\ ui' = [ui EXCEPT !.error = TRUE]
    /\ outcomes' = Append(outcomes, "NoData")
    /\ pc' = "next_tab"
    /\ UNCHANGED <<tab, period, resp, fetched, df, info>>

\* the for loop moves to the next (tab, label) pair, or ends
NextTab ==
    /\ pc = "next_tab"
    /\ IF tab < Len(Labels)
       THEN /\ tab' = tab + 1
            /\ period' = Labels[tab + 1]
            /\ ui' = EmptyTab
            /\ pc' = "get_data"
       ELSE /\ pc' = "done"
            /\ UNCHANGED <<tab, period, ui>>
    /\ UNCHANGED <<resp, fetched, df, info, outcomes>>

Next ==
    \/ GetData
    \/ CalculateIndicators
    \/ Metrics
    \/ Interpret
    \/ ShowError
    \/ NextTab

Spec == Init /\ [][Next]_vars

----------------------------------------------------------------------------
(* One request on its own: the indicator, metrics and interpretation rules *)
(* applied to every walk of up to MaxBars bars with up to three slopes      *)

EngineInit ==
    /\ pc = "calculate_indicators"
    /\ tab = 1
    /\ period = Labels[1]
    /\ \E n \in 1..MaxBars, b \in Bases, d1, d2, d3 \in Steps :
         \E k2 \in 0..n :
            \E k1 \in 0..k2 :
               /\ ValidWalk(n, b, k1, k2, d1, d2, d3)
               /\ df = WalkFrame(n, b, k1, k2, d1, d2, d3)
               /\ resp = Response(FALSE, df, FALSE, None)
    /\ fetched = << [period |-> yf_period_of(Labels[1]),
                     interval |-> interval_of(Labels[1])] >>
    /\ info = None
    /\ ui = EmptyTab
    /\ outcomes = << >>

EngineNext ==
    \/ CalculateIndicators
    \/ Metrics
    \/ Interpret

EngineSpec == EngineInit /\ [][EngineNext]_vars

----------------------------------------------------------------------------
(* get_data called with any label, one of the tab list or not *)

ResolveInit ==
    /\ pc = "get_data"
    /\ tab = 1
    /\ period \in { Labels[t] : t \in 1..Len(Labels) } \cup UnknownLabels
    /\ resp = NoResponse
    /\ fetched = << >>
    /\ df = EmptyFrame
    /\ info = None
    /\ ui = EmptyTab
    /\ outcomes = << >>

ResolveNext == GetData

ResolveSpec == ResolveInit /\ [][ResolveNext]_vars

----------------------------------------------------------------------------
(* Claims about get_data (ResolveSpec) *)

\* C1: resolving a label that is not one of the six tab labels fails with
\* InvalidTimeframe: the call ends in that failure and no request has been
\* made to the provider.
C1_UnknownLabelFails ==
    (pc # "get_data" /\ period \notin { Labels[t] : t \in 1..Len(Labels) })
        => (pc = "InvalidTimeframe" /\ fetched = << >>)

----------------------------------------------------------------------------
(* Claims about the tab loop (Spec) *)

\* C2: for each of the six labels, when the provider returns no bars or fails
\* (stock.history raises, or stock.info raises), the request ends as NoData:
\* the returned frame is empty, the loop takes the "Data not available"
\* branch, and no indicator column, metric or interpretation is produced.
C2_FailureIsNoData ==
    (/\ pc # "get_data"
     /\ resp.history_raises \/ Len(resp.bars.Close) = 0 \/ resp.info_raises)
        => /\ Len(df.Close) = 0
           /\ df.columns = {}
           /\ info = None
           /\ pc \in {"error", "next_tab", "done"}
           /\ ui.metrics = << >>
           /\ ui.interpretation = << >>
           /\ pc \in {"next_tab", "done"} =>
                 /\ ui.error
                 /\ Len(outcomes) = tab
                 /\ outcomes[tab] = "NoData"

\* C2 witness: the loop has ended and all six labels ended as NoData, the
\* last one because stock.info raised after bars were returned.
C2_Witness ==
    /\ pc = "done"
    /\ outcomes = [t \in 1..6 |-> "NoData"]
    /\ resp.info_raises
    /\ Len(resp.bars.Close) > 0

\* C10: the six requests run one after another and each one reaches an
\* outcome: a request is never at a point with no next statement (every point
\* but "done" is the guard of a step of the loop), requests before the current
\* one all have their outcome, and the loop ends with six outcomes.  The
\* outcome of a request (bundle or NoData,
\* the frame with its indicator columns, the metrics and the interpretation
\* shown) is the one computed from this request's own answer alone, whatever
\* the earlier requests ended in.
C10_RequestsAreIndependent ==
    /\ pc \in {"get_data", "calculate_indicators", "metrics", "interpret",
               "error", "next_tab", "done"}
    /\ pc = "done" => Len(outcomes) = 6
    /\ Len(outcomes) = (IF pc \in {"next_tab", "done"} THEN tab ELSE tab - 1)
    /\ \A t \in 1..Len(outcomes) : outcomes[t] \in {"bundle", "NoData"}
    /\ pc \in {"next_tab", "done"} =>
         LET p == Labels[tab]
             failed == resp.history_raises \/ Len(resp.bars.Close) = 0
                          \/ resp.info_raises
             d == calculate_indicators(resp.bars)
         IN  IF failed
             THEN /\ outcomes[tab] = "NoData"
                  /\ df = EmptyFrame
                  /\ ui = [EmptyTab EXCEPT !.error = TRUE]
             ELSE /\ outcomes[tab] = "bundle"
                  /\ df = d
                  /\ info = resp.info
                  /\ ui = [metrics |-> << metrics_of(d, resp.info) >>,
                           interpretation |-> generate_interpretation(d, p),
                           error |-> FALSE]

\* C10 witness: the loop has ended; the first request ended as NoData, a later
\* one failed as well, and the last one still produced a bundle with both
\* indicators defined.
C10_Witness ==
    /\ pc = "done"
    /\ outcomes[1] = "NoData"
    /\ outcomes[5] = "NoData"
    /\ outcomes[6] = "bundle"
    /\ Len(df.Close) >= 20
    /\ Len(ui.interpretation) = 3

----------------------------------------------------------------------------
(* Claims about the indicators, the metrics and the interpretation          *)
(* (EngineSpec).  resp.bars is the frame as fetched; df has the indicator   *)
(* columns once pc has left "calculate_indicators".                         *)

\* C3: for a series of at least 15 bars whose closes are all equal (to a
\* positive price), the oscillator at the last position is defined and equals
\* 50.
C3_FlatSeriesIs50 ==
    (/\ pc # "calculate_indicators"
     /\ Len(resp.bars.Close) >= 15
     /\ resp.bars.Close[1] > 0
     /\ \A i \in 1..Len(resp.bars.Close) : resp.bars.Close[i] = resp.bars.Close[1])
        => /\ "RSI" \in df.columns
           /\ df.RSI[Len(df.RSI)] = [k |-> "num", n |-> 50, d |-> 1]

\* C4: at any position with 14 trailing deltas where the losses sum to zero and
\* the gains do not, the oscillator is defined and equals 100.
C4_AllGainsIs100 ==
    (pc # "calculate_indicators" /\ Len(resp.bars.Close) >= 15) =>
        LET c == resp.bars.Close
            up(j) == IF c[j] > c[j - 1] THEN c[j] - c[j - 1] ELSE 0
            down(j) == IF c[j] < c[j - 1] THEN c[j - 1] - c[j] ELSE 0
        IN  \A i \in 15..Len(c) :
               (/\ \A j \in (i - 13)..i : down(j) = 0
                /\ \E j \in (i - 13)..i : up(j) > 0)
                  => /\ "RSI" \in df.columns
                     /\ df.RSI[i] = [k |-> "num", n |-> 100, d |-> 1]

\* C4 witness: a strictly increasing series of at least 15 bars has been
\* processed and its oscillator at the last position is 100.
C4_Witness ==
    /\ pc # "calculate_indicators"
    /\ Len(resp.bars.Close) >= 15
    /\ \A i \in 2..Len(resp.bars.Close) : resp.bars.Close[i] > resp.bars.Close[i - 1]
    /\ df.RSI[Len(df.RSI)] = [k |-> "num", n |-> 100, d |-> 1]

\* C5: for a series with fewer than 15 bars the frame comes back unmodified,
\* with neither the moving average nor the oscillator defined at any position,
\* and the interpretation has no oscillator and no moving-average statement.
C5_ShortSeriesHasNoIndicators ==
    (pc # "calculate_indicators" /\ Len(resp.bars.Close) < 15) =>
        /\ df = resp.bars
        /\ \A i \in 1..Len(df.Close) :
              /\ ~("SMA_20" \in df.columns /\ df.SMA_20[i].k # "nan")
              /\ ~("RSI" \in df.columns /\ df.RSI[i].k # "nan")
        /\ pc = "next_tab" =>
              \A s \in 1..Len(ui.interpretation) :
                 ui.interpretation[s].kind \notin {"rsi", "sma"}

\* C5 witness: a 14-bar series has gone through the whole request and its
\* interpretation is the performance statement alone.
C5_Witness ==
    /\ pc = "next_tab"
    /\ Len(resp.bars.Close) = 14
    /\ Len(ui.interpretation) = 1
    /\ ui.interpretation[1].kind = "performance"

\* C6: for a series of at least 15 bars the moving average at (1-based)
\* position i is defined exactly when i >= 20, and is then the mean of the 20
\* closes ending at i; so 15 to 19 bars have it undefined everywhere, and a
\* constant series has it equal to the constant.
C6_MovingAverage ==
    (pc # "calculate_indicators" /\ Len(resp.bars.Close) >= 15) =>
        LET c == resp.bars.Close IN
        /\ "SMA_20" \in df.columns
        /\ Len(df.SMA_20) = Len(c)
        /\ \A i \in 1..Len(c) :
              /\ (df.SMA_20[i].k # "nan") <=> (i >= 20)
              /\ i >= 20 =>
                    /\ df.SMA_20[i].k = "num"
                    /\ 20 * df.SMA_20[i].n = df.SMA_20[i].d * SumRange(c, i - 19, i)
                    /\ (\A j \in 1..Len(c) : c[j] = c[1]) =>
                          df.SMA_20[i] = [k |-> "num", n |-> c[1], d |-> 1]

\* C6 witness: a series of more than 20 bars that is not constant has been
\* processed; the moving average is defined at its last two positions.
C6_Witness ==
    /\ pc # "calculate_indicators"
    /\ Len(resp.bars.Close) > 20
    /\ resp.bars.Close[Len(resp.bars.Close)] # resp.bars.Close[1]
    /\ df.SMA_20[Len(df.SMA_20)].k = "num"
    /\ df.SMA_20[Len(df.SMA_20) - 1].k = "num"
    /\ df.SMA_20[Len(df.SMA_20)].d # 1

\* C7: the metrics of a non-empty series fail with DivisionUndefined when the
\* previous close is 0, and then show no percentage; otherwise they never fail
\* and the percentage is (latest - previous) / previous * 100.
C7_ZeroPreviousCloseFails ==
    pc \in {"interpret", "next_tab"} =>
        LET c == resp.bars.Close
            prev == IF Len(c) >= 2 THEN c[Len(c) - 1] ELSE resp.bars.Open[1]
        IN  IF prev = 0
            THEN ui.metrics = << >>
            ELSE /\ Len(ui.metrics) = 1
                 /\ ui.metrics[1].daily_pct.k = "num"
                 /\ ui.metrics[1].daily_pct.n * prev
                       = ui.metrics[1].daily_pct.d * (c[Len(c)] - prev) * 100

\* C8: the oscillator statement is there exactly when the oscillator is
\* defined at the last position; it says Overbought exactly above 70, Oversold
\* exactly below 30 and Neutral otherwise, 70 and 30 included.
C8_OscillatorStatement ==
    pc = "next_tab" =>
        LET defined == "RSI" \in df.columns /\ df.RSI[Len(df.RSI)].k # "nan"
            stmts == { s \in 1..Len(ui.interpretation) :
                          ui.interpretation[s].kind = "rsi" }
        IN  /\ (stmts # {}) <=> defined
            /\ \A s \in stmts :
                  LET v == ui.interpretation[s].rsi
                      z == ui.interpretation[s].zone
                  IN  /\ v = df.RSI[Len(df.RSI)]
                      /\ v.k = "num"
                      /\ (z = "Overbought") <=> (v.n > 70 * v.d)
                      /\ (z = "Oversold") <=> (v.n < 30 * v.d)
                      /\ (z = "Neutral") <=> (v.n <= 70 * v.d /\ v.n >= 30 * v.d)

\* C8 witness: the oscillator at the last position is exactly 70 and the
\* statement says Neutral.
C8_Witness ==
    /\ pc = "next_tab"
    /\ Len(ui.interpretation) >= 2
    /\ ui.interpretation[2].kind = "rsi"
    /\ ui.interpretation[2].rsi = [k |-> "num", n |-> 70, d |-> 1]
    /\ ui.interpretation[2].zone = "Neutral"

\* C9: for a series of at least 2 bars the trend statement comes first; it is
\* Bullish exactly when the last close is above the first close of the period
\* and Bearish otherwise, equal closes included.
C9_TrendStatement ==
    (pc = "next_tab" /\ Len(resp.bars.Close) >= 2) =>
        LET c == resp.bars.Close
            first == ui.interpretation[1]
        IN  /\ first.kind = "performance"
            /\ (first.trend = "Bullish (Upward)") <=> (c[Len(c)] > c[1])
            /\ (first.trend = "Bearish (Downward)") <=> (c[Len(c)] <= c[1])

\* C9 witness: the last close is above the first but below the one before it,
\* and the statement says Bullish.
C9_Witness ==
    /\ pc = "next_tab"
    /\ Len(resp.bars.Close) >= 3
    /\ resp.bars.Close[Len(resp.bars.Close)] > resp.bars.Close[1]
    /\ resp.bars.Close[Len(resp.bars.Close)] < resp.bars.Close[Len(resp.bars.Close) - 1]
    /\ ui.interpretation[1].kind = "performance"
    /\ ui.interpretation[1].trend = "Bullish (Upward)"

====
